---- MODULE Spec2Model ----
(***************************************************************************)
(* A model of scripts/base.py, the "Debian Optional Packages Setup"        *)
(* script: DebianSetup.run, run_command, is_installed,                     *)
(* setup_docker_repository, display_package_menu, install_packages and     *)
(* finalize_script.                                                        *)
(*                                                                         *)
(* Strings the user types are sequences of one-character strings, so that  *)
(* strip(), lower(), split(',') and int() are computed, not assumed.       *)
(* A dict is the sequence of its <<key, value>> items in insertion order.  *)
(* An external command is a record [name, arg]; what the outside world     *)
(* answers (exit status, whether dpkg prints an "ii" line, whether         *)
(* apt-cache prints "Candidate:", whether a file exists, whether open() or *)
(* input() raises) is chosen nondeterministically.                         *)
(***************************************************************************)
EXTENDS Integers, Sequences, FiniteSets, TLC

\* ------------------------------------------------------------------ bounds
\* Longest line the user types at the prompt, in characters.
MaxLineLen == 3
\* Most activations of display_package_menu in one run (prompts shown).
MaxPrompts == 2

\* ------------------------------------------------- strings and characters
\* The characters the lines enumerated up to MaxLineLen are made of.
Chars == {"1", "6", ",", " ", "x"}

Digits == {"0", "1", "2", "6"}

DigitValue(c) ==
  CASE c = "0" -> 0 [] c = "1" -> 1 [] c = "2" -> 2 [] c = "6" -> 6

RECURSIVE SeqsUpTo(_)
SeqsUpTo(n) ==
  IF n = 0 THEN {<<>>}
  ELSE LET S == SeqsUpTo(n - 1)
       IN  S \cup {Append(s, c) : s \in {t \in S : Len(t) = n - 1}, c \in Chars}

\* The words 'all' and 'none' as the user may type them, and lines with
\* white space, a zero, a leading zero or the digit 2 in them.
SpecialLines ==
  { <<"a", "l", "l">>, <<"A", "L", "L">>, <<" ", "a", "l", "l", " ">>,
    <<"n", "o", "n", "e">>, <<"N", "o", "n", "e">>,
    <<" ", "1", " ">>, <<"1", ",", " ", "2">>, <<"1", " ", "2">>, <<" ">>,
    <<"0">>, <<"1", ",", "0">>, <<"0", "1">>, <<"2">>, <<"1", "2">>,
    <<"2", ",", "1", "2">> }

\* What input() can return.
Lines == SeqsUpTo(MaxLineLen) \cup SpecialLines

All == <<"a", "l", "l">>
None == <<"n", "o", "n", "e">>

\* str.strip(): drop leading and trailing whitespace.
RECURSIVE LStrip(_)
LStrip(s) == IF s # <<>> /\ Head(s) = " " THEN LStrip(Tail(s)) ELSE s

RECURSIVE RStrip(_)
RStrip(s) ==
  IF s # <<>> /\ s[Len(s)] = " " THEN RStrip(SubSeq(s, 1, Len(s) - 1)) ELSE s

Strip(s) == RStrip(LStrip(s))

\* str.lower()
LowerChar(c) ==
  CASE c = "A" -> "a" [] c = "L" -> "l" [] c = "N" -> "n" [] c = "O" -> "o"
    [] c = "E" -> "e" [] c = "X" -> "x" [] OTHER -> c

Lower(s) == [i \in 1..Len(s) |-> LowerChar(s[i])]

\* str.split(','): always at least one token, possibly empty.
RECURSIVE Split(_)
Split(s) ==
  IF \A i \in 1..Len(s) : s[i] # ","
  THEN <<s>>
  ELSE LET k == CHOOSE i \in 1..Len(s) : s[i] = "," /\ \A j \in 1..(i - 1) : s[j] # ","
       IN  <<SubSeq(s, 1, k - 1)>> \o Split(SubSeq(s, k + 1, Len(s)))

\* int(t) succeeds on a non-empty string of decimal digits (leading zeros
\* allowed) and raises ValueError on anything else made of Chars.
IsInt(t) == t # <<>> /\ \A i \in 1..Len(t) : t[i] \in Digits

RECURSIVE IntOf(_)
IntOf(t) ==
  IF t = <<>> THEN 0
  ELSE 10 * IntOf(SubSeq(t, 1, Len(t) - 1)) + DigitValue(t[Len(t)])

\* ------------------------------------------------------------- packages
BasePkgs ==
  << "1password-cli", "bitwarden-cli", "certbot", "cmake", "cockpit",
     "fail2ban", "fdupes", "ffmpeg", "nginx", "nodejs", "npm", "nvm",
     "pandoc", "rclone", "timeshift" >>

DockerPkgs ==
  << "containerd.io", "docker-buildx-plugin", "docker-ce", "docker-ce-cli",
     "docker-compose-plugin" >>

\* Python's str order on the menu names.
StrOrder ==
  << "1password-cli", "bitwarden-cli", "certbot", "cmake", "cockpit", "docker",
     "fail2ban", "fdupes", "ffmpeg", "nginx", "nodejs", "npm", "nvm",
     "pandoc", "plex", "rclone", "timeshift" >>

Rank(name) == CHOOSE i \in 1..Len(StrOrder) : StrOrder[i] = name

Range(s) == {s[i] : i \in 1..Len(s)}

\* list.sort(): insertion sort by Rank.
RECURSIVE Insert(_, _)
Insert(x, s) ==
  IF s = <<>> THEN <<x>>
  ELSE IF Rank(x) < Rank(Head(s)) THEN <<x>> \o s
  ELSE <<Head(s)>> \o Insert(x, Tail(s))

RECURSIVE Sort(_)
Sort(s) == IF s = <<>> THEN <<>> ELSE Insert(Head(s), Sort(Tail(s)))

\* ------------------------------------------------- display_package_menu
InBounds(idx, n) == 0 <= idx /\ idx < n

\* Variant of ParseTokens: a token that is not a number is skipped instead
\* of raising ValueError (sensitivity of C2).
RECURSIVE ParseTokensSkip(_, _, _)
ParseTokensSkip(tokens, n, acc) ==
  IF tokens = <<>> THEN [ok |-> TRUE, indices |-> acc]
  ELSE LET num == Strip(Head(tokens))
       IN  IF ~IsInt(num) THEN ParseTokensSkip(Tail(tokens), n, acc)
           ELSE LET idx == IntOf(num) - 1
                IN  ParseTokensSkip(Tail(tokens), n,
                                    IF InBounds(idx, n) THEN acc \cup {idx} ELSE acc)

\* Variant of ParseTokens: the typed number is taken as the 0-based index
\* (sensitivity of C4).
RECURSIVE ParseTokensOneBased(_, _, _)
ParseTokensOneBased(tokens, n, acc) ==
  IF tokens = <<>> THEN [ok |-> TRUE, indices |-> acc]
  ELSE LET num == Strip(Head(tokens))
       IN  IF ~IsInt(num) THEN [ok |-> FALSE, indices |-> acc]
           ELSE LET idx == IntOf(num)
                IN  ParseTokensOneBased(Tail(tokens), n,
                                        IF InBounds(idx, n) THEN acc \cup {idx} ELSE acc)

\* The for loop over selection.split(','): the indices collected so far and
\* whether int() raised ValueError on some token.
RECURSIVE ParseTokens(_, _, _)
ParseTokens(tokens, n, acc) ==
  IF tokens = <<>> THEN [ok |-> TRUE, indices |-> acc]
  ELSE LET num == Strip(Head(tokens))
       IN  IF ~IsInt(num) THEN [ok |-> FALSE, indices |-> acc]
           ELSE LET idx == IntOf(num) - 1
                IN  ParseTokens(Tail(tokens), n,
                                IF InBounds(idx, n) THEN acc \cup {idx} ELSE acc)

\* Variant of FreshIndices: the set of the rejected activation is carried
\* into the next prompt (sensitivity of C10).
StaleIndices(fr) == IF fr = <<>> THEN {} ELSE fr[Len(fr)]

\* selected_indices = set() of a fresh activation, fr being the activations
\* below it.
FreshIndices(fr) == {}

\* selected_indices after the if/elif of one activation reading `selection`.
SelectedIndices(selection, n, start) ==
  IF selection = All THEN [ok |-> TRUE, indices |-> 0..(n - 1)]
  ELSE IF selection # None THEN ParseTokens(Split(selection), n, start)
  ELSE [ok |-> TRUE, indices |-> start]

Keys(d) == {d[i][1] : i \in 1..Len(d)}

\* d[k] = v on a dict: a new key goes last, an old key keeps its place.
DictSet(d, k, v) ==
  IF k \in Keys(d)
  THEN [i \in 1..Len(d) |-> IF d[i][1] = k THEN <<k, v>> ELSE d[i]]
  ELSE Append(d, <<k, v>>)

RECURSIVE DictSetAll(_, _, _)
DictSetAll(d, ks, v) ==
  IF ks = <<>> THEN d ELSE DictSetAll(DictSet(d, Head(ks), v), Tail(ks), v)

\* Variant of EntryKeys: the umbrella entry is not expanded (sensitivity of C3).
EntryKeysNoExpand(pkg, docker_pkgs) == <<pkg>>

\* What stands for the menu entry pkg in the result.
EntryKeys(pkg, docker_pkgs) == IF pkg = "docker" THEN docker_pkgs ELSE <<pkg>>

\* for i, pkg in enumerate(packages): if i in selected_indices: ...
RECURSIVE BuildFrom(_, _, _, _, _)
BuildFrom(i, packages, docker_pkgs, sel, res) ==
  IF i >= Len(packages) THEN res
  ELSE BuildFrom(i + 1, packages, docker_pkgs, sel,
                 IF i \in sel
                 THEN DictSetAll(res, EntryKeys(packages[i + 1], docker_pkgs), TRUE)
                 ELSE res)

BuildResult(packages, docker_pkgs, sel) == BuildFrom(0, packages, docker_pkgs, sel, <<>>)

\* [pkg for pkg, selected in d.items() if selected]
RECURSIVE SelectedOf(_)
SelectedOf(d) ==
  IF d = <<>> THEN <<>>
  ELSE (IF Head(d)[2] THEN <<Head(d)[1]>> ELSE <<>>) \o SelectedOf(Tail(d))

\* ------------------------------------------------------ external commands
Cmd(name, arg) == [name |-> name, arg |-> arg]

DockerList == "/etc/apt/sources.list.d/docker.list"
PlexList == "/etc/apt/sources.list.d/plexmediaserver.list"
OnePasswordList == "/etc/apt/sources.list.d/1password.list"
DockerGpg == "/etc/apt/keyrings/docker.gpg"

Probe == Cmd("apt-cache policy", "docker-ce")
Dpkg(p) == Cmd("dpkg -l", p)
AptInstall(p) == Cmd("apt install -y", p)
AptUpdate == Cmd("apt update", "")
AptUpdateQuiet == Cmd("apt update > /dev/null", "")
WriteList(f) == Cmd("echo deb | tee", f)

\* Statements of a block: a run_command call, `if not self.is_installed(p):
\* body`, `if not os.path.exists(f): body`, or with open(f, "w") ... write.
\* Run is run_command(c, shell=True), RunNC is run_command(c, shell=True, check=False).
Run(c) == [op |-> "run", cmd |-> c, check |-> TRUE, body |-> <<>>]
RunNC(c) == [op |-> "run", cmd |-> c, check |-> FALSE, body |-> <<>>]
UnlessInstalled(p, body) ==
  [op |-> "unless_installed", cmd |-> Dpkg(p), check |-> FALSE, body |-> body]
UnlessExists(f, body) ==
  [op |-> "unless_exists", cmd |-> Cmd("os.path.exists", f), check |-> FALSE, body |-> body]
OpenWrite(f) ==
  [op |-> "open_write", cmd |-> Cmd("open().write", f), check |-> FALSE, body |-> <<>>]

\* setup_docker_repository
DockerRepositoryBlock ==
  << Run(Cmd("install -m 0755 -d", "/etc/apt/keyrings")),
     UnlessExists(DockerGpg,
       << Run(Cmd("curl | gpg --dearmor -o", DockerGpg)),
          Run(Cmd("chmod a+r", DockerGpg)) >>),
     Run(Cmd(". /etc/os-release && echo", "$VERSION_CODENAME")),
     Run(Cmd("dpkg", "--print-architecture")),
     OpenWrite(DockerList),
     Run(AptUpdate) >>

\* Variant of PlexBranch: apt update is run before the source list is
\* written (sensitivity of C6).
PlexBranchUpdateFirst ==
  << UnlessInstalled("plexmediaserver",
       << RunNC(Cmd("curl | gpg --dearmor | tee", "/usr/share/keyrings/plex.gpg")),
          RunNC(AptUpdateQuiet),
          RunNC(WriteList(PlexList)),
          RunNC(AptInstall("plexmediaserver")),
          RunNC(Cmd("systemctl enable", "plexmediaserver")),
          RunNC(Cmd("systemctl start", "plexmediaserver")) >>) >>

PlexBranch ==
  << UnlessInstalled("plexmediaserver",
       << RunNC(Cmd("curl | gpg --dearmor | tee", "/usr/share/keyrings/plex.gpg")),
          RunNC(WriteList(PlexList)),
          RunNC(AptUpdateQuiet),
          RunNC(AptInstall("plexmediaserver")),
          RunNC(Cmd("systemctl enable", "plexmediaserver")),
          RunNC(Cmd("systemctl start", "plexmediaserver")) >>) >>

BitwardenBranch ==
  << UnlessInstalled("build-essential", <<RunNC(AptInstall("build-essential"))>>),
     UnlessInstalled("npm", <<RunNC(AptInstall("npm"))>>),
     RunNC(Cmd("npm install -g", "@bitwarden/cli")) >>

OnePasswordBranch ==
  << RunNC(AptUpdate),
     RunNC(AptInstall("gnupg2 apt-transport-https ca-certificates software-properties-common")),
     RunNC(Cmd("curl | gpg --dearmor --output", "/usr/share/keyrings/1password-archive-keyring.gpg")),
     RunNC(WriteList(OnePasswordList)),
     RunNC(Cmd("mkdir -p", "/etc/debsig/policies/AC2D62742012EA22/")),
     RunNC(Cmd("curl | tee", "/etc/debsig/policies/AC2D62742012EA22/1password.pol")),
     RunNC(Cmd("mkdir -p", "/usr/share/debsig/keyrings/AC2D62742012EA22/")),
     RunNC(Cmd("curl | gpg --dearmor --output", "/usr/share/debsig/keyrings/AC2D62742012EA22/debsig.gpg")),
     RunNC(Cmd("apt update > /dev/null && apt install -y", "1password-cli")) >>

NvmBranch == <<RunNC(AptInstall("nvm"))>>

\* Variant of GenericBranch: apt install without asking dpkg (sensitivity of C7).
GenericBranchUnguarded(pkg) == <<RunNC(AptInstall(pkg))>>

GenericBranch(pkg) == <<UnlessInstalled(pkg, <<RunNC(AptInstall(pkg))>>)>>

\* The if/elif chain of the install loop.
Branch(pkg) ==
  IF pkg = "plex" THEN PlexBranch
  ELSE IF pkg = "bitwarden-cli" THEN BitwardenBranch
  ELSE IF pkg = "1password-cli" THEN OnePasswordBranch
  ELSE IF pkg = "nvm" THEN NvmBranch
  ELSE GenericBranch(pkg)

\* The simple commands a shell command line runs, in order ("a && b").
Atoms(c) ==
  IF c.name = "apt update > /dev/null && apt install -y"
  THEN <<AptUpdateQuiet, AptInstall(c.arg)>>
  ELSE <<c>>

\* ------------------------------------------------------------- the state
VARIABLES
  pc,               \* where the run is: "run", "probe", "docker_repo", "menu",
                    \* "selection", "loop", "finalize", "except", "exited"
  error_flag,       \* self.error_flag
  exit_status,      \* the process's exit status, -1 while it runs
  summary,          \* what finalize_script printed: "none", "SUCCESS", "ERROR"
  raised,           \* the exception propagating out of the try body, or "none"
  apt_cache_output, \* stdout of the apt-cache probe: "" or "Candidate:"
  docker_available, \* self.docker_available
  docker_pkgs,      \* install_packages' docker_pkgs
  pkgs,             \* install_packages' pkgs
  selection,        \* the line the accepting activation read, stripped and lowered
  frames,           \* selected_indices of each display_package_menu activation
  result,           \* the dict display_package_menu returned
  selected_pkgs,    \* install_packages' selected_pkgs
  pkg_i,            \* how many iterations of the install loop have started
  todo,             \* the statements of the current block still to execute
  running,          \* the child processes launched and not yet waited for
  issued,           \* the run_command calls of the current block, with results
  written,          \* the source-list files whose write statement has completed
  indexed,          \* `written` as it was when the last apt update completed
  all_failed        \* no run_command call has returned 0 so far

vars ==
  << pc, error_flag, exit_status, summary, raised, apt_cache_output,
     docker_available, docker_pkgs, pkgs, selection, frames, result,
     selected_pkgs, pkg_i, todo, running, issued, written, indexed, all_failed >>

menuVars == <<selection, frames, result>>
envVars == <<apt_cache_output, docker_available, docker_pkgs, pkgs>>
exitVars == <<error_flag, exit_status, summary, raised>>
cmdVars == <<running, issued, written, indexed, all_failed>>

Init ==
  /\ pc = "run"
  /\ error_flag = FALSE
  /\ exit_status = -1
  /\ summary = "none"
  /\ raised = "none"
  /\ apt_cache_output = ""
  /\ docker_available = FALSE
  /\ docker_pkgs = <<>>
  /\ pkgs = <<>>
  /\ selection = <<>>
  /\ frames = <<>>
  /\ result = <<>>
  /\ selected_pkgs = <<>>
  /\ pkg_i = 0
  /\ todo = <<>>
  /\ running = {}
  /\ issued = <<>>
  /\ written = {}
  /\ indexed = {}
  /\ all_failed = TRUE

\* ------------------------------------------------------------ run_command
\* What a child can do: Popen raises, or the process exits with a status and
\* some output (only dpkg -l and apt-cache policy have output that is read).
Outputs(c) ==
  IF c.name = "dpkg -l" THEN {"", "ii"}
  ELSE IF c.name = "apt-cache policy" THEN {"", "Candidate:"}
  ELSE {""}

Outcomes(c) ==
  {[kind |-> "popen_raises", rc |-> 1, out |-> ""]}
    \cup {[kind |-> "exit", rc |-> r, out |-> o] : r \in {0, 1}, o \in Outputs(c)}

\* Variant of RunCommandResult: the exception of Popen is not caught
\* (sensitivity of C8).
RunCommandRaises(o) ==
  IF o.kind = "popen_raises"
  THEN [raises |-> TRUE, rc |-> 1, out |-> ""]
  ELSE [raises |-> FALSE, rc |-> o.rc, out |-> o.out]

\* run_command's try/except: the tuple it returns, and whether it raises.
RunCommandResult(o) ==
  IF o.kind = "popen_raises"
  THEN [raises |-> FALSE, rc |-> 1, out |-> ""]
  ELSE [raises |-> FALSE, rc |-> o.rc, out |-> o.out]

\* Variant of FlagAfterCommand: a checked command that fails sets the flag
\* (sensitivity of C9).
FlagOnFailure(flag, check, rc) == flag \/ (check /\ rc # 0)

\* self.error_flag after a run_command call: run_command only logs.
FlagAfterCommand(flag, check, rc) == flag

\* is_installed: returncode == 0 and some line starts with "ii".
IsInstalled(rc, out) == rc = 0 /\ out = "ii"

\* Variant of DockerAvailable: docker is offered whatever the probe printed
\* (sensitivity of C5).
AlwaysAvailable(out) == TRUE

\* "Candidate:" in apt_cache_output
DockerAvailable(out) == out = "Candidate:"

IsAptUpdate(c) == c \in {AptUpdate, AptUpdateQuiet}

HasUpdate(c) == \E i \in 1..Len(Atoms(c)) : IsAptUpdate(Atoms(c)[i])

\* The interpreter is not inside process.communicate().
Idle == running = {}

\* subprocess.Popen(...) of the run_command call at the head of the block.
Popen ==
  /\ pc \in {"probe", "docker_repo", "loop"}
  /\ Idle
  /\ todo # <<>>
  /\ Head(todo).op \in {"run", "unless_installed"}
  /\ running' = running \cup {Head(todo).cmd}
  /\ UNCHANGED <<pc, envVars, menuVars, exitVars, selected_pkgs, pkg_i, todo,
                 issued, written, indexed, all_failed>>

\* process.communicate() returns (or Popen had raised); run_command returns
\* and the statement that called it goes on with the result.
Communicate ==
  /\ pc \in {"probe", "docker_repo", "loop"}
  /\ todo # <<>>
  /\ \E c \in running, o \in Outcomes(Head(todo).cmd) :
       LET st == Head(todo)
           r == RunCommandResult(o)
       IN  /\ c = st.cmd
           /\ running' = running \ {c}
           /\ IF r.raises
              THEN /\ raised' = "OSError"
                   /\ pc' = "except"
                   /\ UNCHANGED <<todo, issued, written, indexed, all_failed, error_flag>>
              ELSE /\ issued' = Append(issued, [cmd |-> c, rc |-> r.rc, out |-> r.out])
                   /\ all_failed' = (all_failed /\ r.rc # 0)
                   /\ error_flag' = FlagAfterCommand(error_flag, st.check, r.rc)
                   /\ written' = IF c.name = WriteList("").name
                                 THEN written \cup {c.arg} ELSE written
                   /\ indexed' = IF HasUpdate(c) THEN written' ELSE indexed
                   /\ todo' = (IF st.op = "unless_installed" /\ ~IsInstalled(r.rc, r.out)
                               THEN st.body ELSE <<>>) \o Tail(todo)
                   /\ UNCHANGED <<pc, raised>>
  /\ UNCHANGED <<envVars, menuVars, exit_status, summary, selected_pkgs, pkg_i>>

\* if not os.path.exists(f): body
PathExists ==
  /\ pc = "docker_repo"
  /\ Idle
  /\ todo # <<>>
  /\ Head(todo).op = "unless_exists"
  /\ \E exists \in BOOLEAN :
       todo' = (IF exists THEN <<>> ELSE Head(todo).body) \o Tail(todo)
  /\ UNCHANGED <<pc, envVars, menuVars, exitVars, selected_pkgs, pkg_i, cmdVars>>

\* with open(f, "w") as f: f.write(...): writes the file or raises OSError.
WriteFile ==
  /\ pc = "docker_repo"
  /\ Idle
  /\ todo # <<>>
  /\ Head(todo).op = "open_write"
  /\ \E ok \in BOOLEAN :
       IF ok
       THEN /\ written' = written \cup {Head(todo).cmd.arg}
            /\ todo' = Tail(todo)
            /\ UNCHANGED <<pc, raised>>
       ELSE /\ raised' = "OSError"
            /\ pc' = "except"
            /\ UNCHANGED <<written, todo>>
  /\ UNCHANGED <<envVars, menuVars, error_flag, exit_status, summary,
                 selected_pkgs, pkg_i, running, issued, indexed, all_failed>>

\* ------------------------------------------------------- install_packages
\* run() enters the try body and install_packages builds the candidate list
\* and calls the apt-cache probe.
Start ==
  /\ pc = "run"
  /\ pkgs' = BasePkgs
  /\ docker_available' = FALSE
  /\ docker_pkgs' = <<>>
  /\ todo' = <<RunNC(Probe)>>
  /\ pc' = "probe"
  /\ UNCHANGED <<apt_cache_output, menuVars, exitVars, selected_pkgs, pkg_i, cmdVars>>

\* The probe returned: docker joins the list if a candidate was reported,
\* plex always; setup_docker_repository is called.
ProbeResult ==
  /\ pc = "probe"
  /\ Idle
  /\ todo = <<>>
  /\ LET out == issued[Len(issued)].out
     IN  /\ apt_cache_output' = out
         /\ docker_available' = DockerAvailable(out)
         /\ docker_pkgs' = IF DockerAvailable(out) THEN DockerPkgs ELSE <<>>
         /\ pkgs' = pkgs \o (IF DockerAvailable(out) THEN <<"docker">> ELSE <<>>)
                         \o <<"plex">>
  /\ todo' = DockerRepositoryBlock
  /\ issued' = <<>>
  /\ pc' = "docker_repo"
  /\ UNCHANGED <<menuVars, exitVars, selected_pkgs, pkg_i, running, written,
                 indexed, all_failed>>

\* setup_docker_repository returned: pkgs.sort(), then the menu is shown.
SortPackages ==
  /\ pc = "docker_repo"
  /\ Idle
  /\ todo = <<>>
  /\ pkgs' = Sort(pkgs)
  /\ issued' = <<>>
  /\ pc' = "menu"
  /\ UNCHANGED <<apt_cache_output, docker_available, docker_pkgs, menuVars,
                 exitVars, selected_pkgs, pkg_i, todo, running, written,
                 indexed, all_failed>>

\* One activation of display_package_menu reads a line: it either returns
\* the result dict (through every activation below it) or, on ValueError,
\* calls display_package_menu again.
DisplayPackageMenu ==
  /\ pc = "menu"
  /\ Len(frames) < MaxPrompts
  /\ \E line \in Lines :
       LET sel == Lower(Strip(line))
           parsed == SelectedIndices(sel, Len(pkgs), FreshIndices(frames))
       IN  /\ frames' = Append(frames, parsed.indices)
           /\ IF parsed.ok
              THEN /\ selection' = sel
                   /\ result' = BuildResult(pkgs, docker_pkgs, parsed.indices)
                   /\ pc' = "selection"
              ELSE /\ Len(frames) + 1 < MaxPrompts
                   /\ UNCHANGED <<selection, result, pc>>
  /\ UNCHANGED <<envVars, exitVars, selected_pkgs, pkg_i, todo, cmdVars>>

\* input() raises EOFError: stdin is closed.
InputEOF ==
  /\ pc = "menu"
  /\ raised' = "EOFError"
  /\ pc' = "except"
  /\ UNCHANGED <<envVars, menuVars, error_flag, exit_status, summary,
                 selected_pkgs, pkg_i, todo, cmdVars>>

\* The menu returned to install_packages: selected_pkgs is computed.
ProcessSelection ==
  /\ pc = "selection"
  /\ selected_pkgs' = SelectedOf(result)
  /\ frames' = <<>>
  /\ selection' = <<>>
  /\ pkg_i' = 0
  /\ pc' = "loop"
  /\ UNCHANGED <<envVars, result, exitVars, todo, cmdVars>>

\* for pkg in selected_pkgs: the next iteration starts.
NextPackage ==
  /\ pc = "loop"
  /\ Idle
  /\ todo = <<>>
  /\ pkg_i < Len(selected_pkgs)
  /\ pkg_i' = pkg_i + 1
  /\ todo' = Branch(selected_pkgs[pkg_i + 1])
  /\ issued' = <<>>
  /\ UNCHANGED <<pc, envVars, menuVars, exitVars, selected_pkgs, running,
                 written, indexed, all_failed>>

\* The loop is exhausted: install_packages returns to run().
LoopDone ==
  /\ pc = "loop"
  /\ Idle
  /\ todo = <<>>
  /\ pkg_i = Len(selected_pkgs)
  /\ pc' = "finalize"
  /\ UNCHANGED <<envVars, menuVars, exitVars, selected_pkgs, pkg_i, todo, cmdVars>>

\* ------------------------------------------------------ run, finalize_script
\* Variant of Catches: a bare except, which also catches SystemExit
\* (sensitivity of C1).
CatchesBaseException(exc) == TRUE

\* except Exception: what the handler of run() catches.
Catches(exc) == exc \in {"OSError", "EOFError", "ValueError"}

\* finalize_script prints the summary and calls sys.exit, whose SystemExit
\* leaves run() unless the handler catches it.
FinalizeScript ==
  /\ pc = "finalize"
  /\ summary' = IF error_flag THEN "ERROR" ELSE "SUCCESS"
  /\ IF Catches("SystemExit")
     THEN /\ raised' = "SystemExit"
          /\ pc' = "except"
          /\ UNCHANGED exit_status
     ELSE /\ exit_status' = IF error_flag THEN 1 ELSE 0
          /\ pc' = "exited"
          /\ UNCHANGED raised
  /\ UNCHANGED <<envVars, menuVars, error_flag, selected_pkgs, pkg_i, todo, cmdVars>>

\* except Exception as e: self.error_flag = True; ...; sys.exit(1)
ExceptHandler ==
  /\ pc = "except"
  /\ error_flag' = TRUE
  /\ exit_status' = 1
  /\ pc' = "exited"
  /\ UNCHANGED <<envVars, menuVars, summary, raised, selected_pkgs, pkg_i, todo, cmdVars>>

Next ==
  \/ Start
  \/ Popen
  \/ Communicate
  \/ ProbeResult
  \/ PathExists
  \/ WriteFile
  \/ SortPackages
  \/ DisplayPackageMenu
  \/ InputEOF
  \/ ProcessSelection
  \/ NextPackage
  \/ LoopDone
  \/ FinalizeScript
  \/ ExceptHandler

Spec == Init /\ [][Next]_vars

\* ------------------------------------------------ vocabulary of the claims
Tokens(sel) == Split(sel)

\* The 1-based menu indices a line denotes against a menu of n entries.
Denoted(sel, n) ==
  IF sel = All THEN 1..n
  ELSE IF sel = None THEN {}
  ELSE {v \in 1..n : \E i \in 1..Len(Tokens(sel)) :
          /\ IsInt(Strip(Tokens(sel)[i]))
          /\ IntOf(Strip(Tokens(sel)[i])) = v}

FiveDockerNames ==
  {"containerd.io", "docker-buildx-plugin", "docker-ce", "docker-ce-cli",
   "docker-compose-plugin"}

\* The names a set of menu indices stands for, the umbrella entry expanded.
NamesOf(S) ==
  {pkgs[v] : v \in {w \in S : pkgs[w] # "docker"}}
    \cup (IF \E v \in S : pkgs[v] = "docker" THEN FiveDockerNames ELSE {})

Cmds(log) == [i \in 1..Len(log) |-> log[i].cmd]

\* A command that installs packages, alone or as a part of a shell line.
IsInstall(c) ==
  \E i \in 1..Len(Atoms(c)) : Atoms(c)[i].name \in {"apt install -y", "npm install -g"}

\* The dpkg database said "installed".
Reported(e) == e.cmd.name = "dpkg -l" /\ e.rc = 0 /\ e.out = "ii"

BranchDone == pc = "loop" /\ Idle /\ todo = <<>> /\ pkg_i >= 1

CurrentPkg == selected_pkgs[pkg_i]

\* The name the package database knows a menu package by.
DbName(pkg) == IF pkg = "plex" THEN "plexmediaserver" ELSE pkg

Accepted == pc = "selection"

\* --------------------------------------------------------------- C1
\* C1: a run that has ended has exit status 0 or 1; it is 1 exactly when an
\* exception was raised inside run() or the error flag was set when
\* finalize_script ran, and 0 exactly when neither happened; the process has
\* no exit status before it ends.
C1_ExitStatus ==
  /\ pc = "exited" =>
       /\ exit_status \in {0, 1}
       /\ exit_status = 1 <=> (raised \in {"OSError", "EOFError", "ValueError"}
                                 \/ summary = "ERROR")
       /\ exit_status = 0 <=> (raised = "none" /\ summary = "SUCCESS")
  /\ pc # "exited" => exit_status = -1

C1_Witness == pc = "exited" /\ exit_status = 1 /\ raised = "OSError"

\* --------------------------------------------------------------- C2
\* C2 as stated: an accepted line has no invalid index, neither a token
\* that is not a number nor a number outside 1..len(packages).
C2_AsStated ==
  (Accepted /\ selection \notin {All, None}) =>
    \A i \in 1..Len(Tokens(selection)) :
      LET num == Strip(Tokens(selection)[i])
      IN  IsInt(num) /\ IntOf(num) \in 1..Len(pkgs)

\* C2 amended: a line with a token that is not a number is rejected (no
\* mapping is produced and the prompt is shown again), while a number outside
\* 1..len(packages) is dropped and the rest of the line is accepted, the
\* indices kept being within the list bounds.
C2_Rejection ==
  /\ (Accepted /\ selection \notin {All, None}) =>
       \A i \in 1..Len(Tokens(selection)) : IsInt(Strip(Tokens(selection)[i]))
  /\ Accepted => frames[Len(frames)] \subseteq 0..(Len(pkgs) - 1)
  /\ pc = "menu" => result = <<>> /\ selection = <<>>

C2_Witness ==
  /\ Accepted
  /\ Len(frames) = 2
  /\ selection \notin {All, None}
  /\ \E i \in 1..Len(Tokens(selection)) :
       IntOf(Strip(Tokens(selection)[i])) \notin 1..Len(pkgs)
  /\ result # <<>>

\* --------------------------------------------------------------- C3
\* C3: when the accepted selection holds the index of "docker", the result
\* has exactly the five docker sub-packages among the docker names, and none
\* of them otherwise; "docker" is never a key of the result, never a member
\* of selected_pkgs and never the argument of a command.
C3_DockerExpansion ==
  /\ Accepted =>
       LET chosen == \E i \in frames[Len(frames)] : pkgs[i + 1] = "docker"
       IN  Keys(result) \cap (FiveDockerNames \cup {"docker"})
             = IF chosen THEN FiveDockerNames ELSE {}
  /\ "docker" \notin Keys(result)
  /\ "docker" \notin Range(selected_pkgs)
  /\ \A c \in running \cup Range(Cmds(issued)) : c.arg # "docker"

C3_Witness ==
  /\ Accepted
  /\ selection = <<"6">>
  /\ Keys(result) = FiveDockerNames

\* --------------------------------------------------------------- C4
\* C4: the returned mapping is the function of the set of indices the
\* accepted line denotes: its keys are the names that set stands for, every
\* key is flagged True, and every key occurs once.
C4_FunctionOfIndexSet ==
  Accepted =>
    /\ Keys(result) = NamesOf(Denoted(selection, Len(pkgs)))
    /\ \A i \in 1..Len(result) : result[i][2] = TRUE
    /\ Cardinality(Keys(result)) = Len(result)

C4_Witness ==
  /\ Accepted
  /\ selection = <<"6", ",", "1">>
  /\ Len(result) = 2

\* --------------------------------------------------------------- C10
\* C10: whatever lines were rejected before, the mapping returned is the one
\* the accepted line produces on its own, from an empty set of indices.
C10_RejectedLeavesNoTrace ==
  Accepted =>
    /\ frames[Len(frames)] = {v - 1 : v \in Denoted(selection, Len(pkgs))}
    /\ result = BuildResult(pkgs, docker_pkgs,
                            SelectedIndices(selection, Len(pkgs), {}).indices)

C10_Witness ==
  /\ Accepted
  /\ Len(frames) >= 2
  /\ frames[1] # {}
  /\ frames[1] \cap frames[Len(frames)] = {}

\* --------------------------------------------------------------- C5
MenuReturned == pc \in {"loop", "finalize"} \/ summary # "none"

\* C5: the phases come in the fixed order. The candidate list is built and
\* the probe is taken while no repository has been configured; "docker" is a
\* menu entry iff that probe reported a candidate; once the menu is shown
\* the Docker list has been written and indexed, whatever is selected later;
\* a package install command exists only after the menu has returned; the
\* summary is printed only when every selected package has been processed.
C5_PhaseOrder ==
  /\ pc \in {"run", "probe"} => written = {} /\ indexed = {} /\ frames = <<>>
  /\ pc \notin {"run", "probe"} =>
       /\ Range(BasePkgs) \cup {"plex"} \subseteq Range(pkgs)
       /\ "docker" \in Range(pkgs) <=> apt_cache_output = "Candidate:"
  /\ (pc \in {"menu", "selection"} \/ MenuReturned) =>
       /\ DockerList \in written
       /\ DockerList \in indexed
       /\ pkgs = Sort(pkgs)
  /\ pc \in {"run", "probe", "docker_repo"} => frames = <<>> /\ result = <<>>
  /\ (\E c \in running \cup Range(Cmds(issued)) : IsInstall(c)) =>
       MenuReturned /\ raised = "none"
  /\ ~MenuReturned => selected_pkgs = <<>> /\ pkg_i = 0
  /\ (pc = "finalize" \/ summary # "none") =>
       pkg_i = Len(selected_pkgs) /\ todo = <<>> /\ Idle

C5_Witness ==
  /\ pc = "exited"
  /\ summary = "SUCCESS"
  /\ "docker" \in Range(pkgs)
  /\ Len(selected_pkgs) = Len(BasePkgs) + 1 + Len(DockerPkgs)

\* --------------------------------------------------------------- C6
\* The source list of the repository a package comes from.
RepoList(p) ==
  IF p = "plexmediaserver" THEN PlexList
  ELSE IF p = "1password-cli" THEN OnePasswordList
  ELSE IF p \in FiveDockerNames THEN DockerList
  ELSE "none"

C7_AsStated ==
  pc = "loop" /\ pkg_i >= 1 =>
    \A c \in running \cup Range(Cmds(issued)) :
      IsInstall(c) =>
        \E i \in 1..Len(issued) :
          issued[i].cmd = Dpkg(DbName(CurrentPkg)) /\ ~Reported(issued[i])

Unguarded == {"bitwarden-cli", "1password-cli", "nvm"}

\* C7 amended: only the Plex branch and the generic apt branch are guarded
\* by the package's install status: there, nothing but the dpkg query is
\* issued unless the query did not report the package installed. The
\* Bitwarden branch guards only its two prerequisites (build-essential, npm)
\* and runs npm install -g whatever the database says; the 1Password and NVM
\* branches never ask the database and run all their commands.
C7_Guards ==
  pc = "loop" /\ pkg_i >= 1 =>
    /\ CurrentPkg \notin Unguarded =>
         \A c \in running \cup Range(Cmds(issued)) :
           c # Dpkg(DbName(CurrentPkg)) =>
             /\ issued # <<>>
             /\ issued[1].cmd = Dpkg(DbName(CurrentPkg))
             /\ ~Reported(issued[1])
    /\ CurrentPkg = "bitwarden-cli" =>
         /\ \A p \in {"build-essential", "npm"} :
              AptInstall(p) \in running \cup Range(Cmds(issued)) =>
                \E i \in 1..Len(issued) :
                  issued[i].cmd = Dpkg(p) /\ ~Reported(issued[i])
         /\ BranchDone => Cmd("npm install -g", "@bitwarden/cli") \in Range(Cmds(issued))
    /\ CurrentPkg \in {"1password-cli", "nvm"} =>
         /\ \A c \in running \cup Range(Cmds(issued)) : c.name # "dpkg -l"
         /\ BranchDone => AptInstall(CurrentPkg) \in
              {Atoms(c)[Len(Atoms(c))] : c \in Range(Cmds(issued))}

C7_Witness ==
  /\ BranchDone
  /\ CurrentPkg = "plex"
  /\ Len(issued) = 1
  /\ Reported(issued[1])

\* --------------------------------------------------------------- C8
\* The commands of a branch, bodies of its conditionals included.
BranchCmds(pkg) ==
  UNION {{Branch(pkg)[i].cmd} \cup Range(Cmds(Branch(pkg)[i].body)) :
           i \in 1..Len(Branch(pkg))}

\* C8: a failing command never aborts the install loop. No exception ever
\* leaves the loop; when a branch is done its run_command calls are those of
\* the branch, each made once, every unconditional one made and every
\* conditional one made whose dpkg query did not report "installed",
\* whatever the exit statuses were; and the summary is reached only with
\* every selected package processed.
C8_FailuresOnlyLogged ==
  /\ raised # "none" => pkg_i = 0 /\ selected_pkgs = <<>>
  /\ pc = "loop" /\ pkg_i >= 1 =>
       /\ Range(Cmds(issued)) \subseteq BranchCmds(CurrentPkg)
       /\ Cardinality(Range(Cmds(issued))) = Len(issued)
  /\ BranchDone =>
       \A i \in 1..Len(Branch(CurrentPkg)) :
         LET st == Branch(CurrentPkg)[i]
         IN  /\ st.cmd \in Range(Cmds(issued))
             /\ st.op = "unless_installed" =>
                  \A k \in 1..Len(issued) :
                    (issued[k].cmd = st.cmd /\ ~Reported(issued[k])) =>
                      Range(Cmds(st.body)) \subseteq Range(Cmds(issued))
  /\ (pc = "finalize" \/ summary # "none") => pkg_i = Len(selected_pkgs)

C8_Witness ==
  /\ pc = "finalize"
  /\ all_failed
  /\ Len(selected_pkgs) >= 2
  /\ Len(issued) >= 2

\* --------------------------------------------------------------- C9
\* C9: the error flag is false whenever finalize_script runs; it is set only
\* by the exception handler, together with the exit; so a run that printed a
\* summary printed SUCCESS and exits 0, whatever the commands returned.
C9_FlagNeverSetAtFinalize ==
  /\ pc = "finalize" => ~error_flag
  /\ error_flag => pc = "exited" /\ raised # "none" /\ exit_status = 1
  /\ summary # "none" => summary = "SUCCESS"
  /\ (pc = "exited" /\ summary # "none") => exit_status = 0

C9_Witness ==
  /\ pc = "exited"
  /\ exit_status = 0
  /\ summary = "SUCCESS"
  /\ all_failed
  /\ selected_pkgs # <<>>

====
